---- MODULE Spec2Model ----
(***************************************************************************)
(* d-brain: the retry wrapper (utils.handle_rate_limit), the vault git     *)
(* layer (services/git.py VaultGit) and the daily / weekly synthesis       *)
(* cycles (services/processor.py ClaudeProcessor, bot/handlers/process.py, *)
(* bot/handlers/weekly.py), as one state machine.                          *)
(*                                                                         *)
(* Texts are sequences of strings.  Failure messages are sequences of      *)
(* characters, so that str(e).lower() and the substring tests of the       *)
(* rate-limit classifier are computed, not assumed.  LLM outputs and file  *)
(* contents are sequences of tokens (a tag or a word per token).           *)
(***************************************************************************)
EXTENDS Integers, Sequences, FiniteSets, TLC

(* ------------------------------ bounds -------------------------------- *)

\* Largest max_retries the retry harness passes to handle_rate_limit.
MaxRetriesBound == 3
\* Base delays the retry harness passes: 1..MaxDelayBound (time units).
MaxDelayBound == 2
\* Last calendar day of the run; days are days of January 2025.
LastDay == 6
\* Most entries the voice handler appends to the vault during the run.
MaxEntries == 2

(* ------------------------- program constants -------------------------- *)

\* cmd_process: handle_rate_limit(..., delay=2.0, max_retries=3)
ProcessDelay == 2
ProcessMaxRetries == 3

\* The handler tasks the dispatcher may run (one synthesis cycle each).
Procs == {"h1", "h2"}

\* 2025-01-05 is a Sunday (ISO 2025-W01), 2025-01-06 a Monday (ISO 2025-W02).
Days == 5..LastDay

(* ------------------------------- texts -------------------------------- *)

Upper == <<"A", "B", "C", "D", "E", "F", "G", "H", "I", "J", "K", "L", "M", "N", "O", "P", "Q", "R", "S", "T", "U", "V", "W", "X", "Y", "Z">>
LowerOf == <<"a", "b", "c", "d", "e", "f", "g", "h", "i", "j", "k", "l", "m", "n", "o", "p", "q", "r", "s", "t", "u", "v", "w", "x", "y", "z">>
DigitChar == <<"0", "1", "2", "3", "4", "5", "6", "7", "8", "9">>

\* str.lower() on one character.
LowerChar(c) ==
    IF \E i \in 1..Len(Upper) : Upper[i] = c
    THEN LowerOf[CHOOSE i \in 1..Len(Upper) : Upper[i] = c]
    ELSE c

\* str.lower()
Lower(s) == [i \in 1..Len(s) |-> LowerChar(s[i])]

\* Python's `sub in s` on strings.
Contains(sub, s) ==
    \E i \in 0..(Len(s) - Len(sub)) : \A j \in 1..Len(sub) : s[i + j] = sub[j]

RECURSIVE NatDigits(_)
NatDigits(n) == IF n < 10 THEN <<DigitChar[n + 1]>>
                ELSE NatDigits(n \div 10) \o <<DigitChar[(n % 10) + 1]>>

\* f"{n}" for an int.
Digits(n) == IF n < 0 THEN <<"-">> \o NatDigits(0 - n) ELSE NatDigits(n)

Marker429 == <<"4", "2", "9">>
MarkerRateLimit == <<"r", "a", "t", "e", " ", "l", "i", "m", "i", "t">>
MarkerTooMany == <<"t", "o", "o", " ", "m", "a", "n", "y", " ", "r", "e", "q", "u", "e", "s", "t", "s">>

\* Messages of the failures the wrapped operations raise.
Err429 == <<"H", "T", "T", "P", " ", "4", "2", "9">>
ErrRateLimit == <<"R", "a", "t", "e", " ", "L", "i", "m", "i", "t", " ", "h", "i", "t">>
ErrTooMany == <<"T", "o", "o", " ", "M", "a", "n", "y", " ", "R", "e", "q", "u", "e", "s", "t", "s">>
ErrServer == <<"H", "T", "T", "P", " ", "5", "0", "0">>
ErrTimeout == <<"t", "i", "m", "e", "d", " ", "o", "u", "t">>
ErrRateHyphen == <<"r", "a", "t", "e", "-", "l", "i", "m", "i", "t", "e", "d">>

ErrTexts == {Err429, ErrRateLimit, ErrTooMany, ErrServer, ErrTimeout, ErrRateHyphen}

ExhaustedPrefix == <<"R", "a", "t", "e", " ", "l", "i", "m", "i", "t", " ", "e", "x", "c", "e", "e", "d", "e", "d", " ", "a", "f", "t", "e", "r", " ">>
ExhaustedInfix == <<" ", "r", "e", "t", "r", "i", "e", "s", ":", " ">>
FallthroughPrefix == <<"F", "u", "n", "c", "t", "i", "o", "n", " ", "f", "a", "i", "l", "e", "d", " ", "a", "f", "t", "e", "r", " ">>
FallthroughSuffix == <<" ", "r", "e", "t", "r", "i", "e", "s">>

(* ----------------------------- exceptions ----------------------------- *)

NoExc == [type |-> "none", msg |-> <<>>]
NoValue == [none |-> TRUE]
NoResult == [kind |-> "none"]
NoReport == [none |-> TRUE]

Exc(type, msg) == [type |-> type, msg |-> msg]

\* A classifier that takes any "rate" for a rate-limit marker.
IsRateLimitLoose(msg) ==
    LET error_str == Lower(msg)
    IN  \/ Contains(Marker429, error_str)
        \/ Contains(<<"r", "a", "t", "e">>, error_str)
        \/ Contains(MarkerTooMany, error_str)

\* The condition of utils.py line 44 on str(e).
IsRateLimit(msg) ==
    LET error_str == Lower(msg)
    IN  \/ Contains(Marker429, error_str)
        \/ Contains(MarkerRateLimit, error_str)
        \/ Contains(MarkerTooMany, error_str)

\* RateLimitException(f"Rate limit exceeded after {max_retries} retries: {e}")
RateLimitExhausted(max_retries, e) ==
    Exc("RateLimitException",
        ExhaustedPrefix \o Digits(max_retries) \o ExhaustedInfix \o e.msg)

\* RateLimitException(f"Function failed after {max_retries} retries")
RateLimitFallthrough(max_retries) ==
    Exc("RateLimitException",
        FallthroughPrefix \o Digits(max_retries) \o FallthroughSuffix)

\* A backoff that grows linearly: delay * (attempt + 1).
WaitTimeLinear(delay, attempt) == delay * (attempt + 1)

\* wait_time = delay * (2 ** attempt)
WaitTime(delay, attempt) == delay * (2 ^ attempt)

\* An `except <clause>` catches the exception.  Every failure of the model is
\* an Exception subclass.
Catches(clause, e) == clause = "Exception" \/ clause = e.type

Returned(v, llm) == [kind |-> "return", value |-> v, exc |-> NoExc, llm |-> llm]
Raised(e, llm) == [kind |-> "raise", value |-> NoValue, exc |-> e, llm |-> llm]
NoOutcome == [kind |-> "none", value |-> NoValue, exc |-> NoExc, llm |-> 0]

(* ------------------------------- state -------------------------------- *)

VARIABLES
    today,          \* date.today(), a day of January 2025
    groq_api_key,   \* settings.groq_api_key is non-empty
    tree,           \* working tree of the vault: path -> content
    index,          \* git index: path -> content
    head,           \* HEAD commit: path -> content
    ahead,          \* the local branch holds a commit the remote lacks
    pc,             \* per handler task: where it is
    cmd,            \* per handler task: what it runs
    frame,          \* per handler task: locals of handle_rate_limit / the cycle
    obs,            \* per handler task: what the call in flight has done so far
    result,         \* per handler task: how the awaited call ended
    report,         \* per handler task: the Report of the cycle
    git,            \* per handler task: the git commands of its VaultGit call
    vault,          \* vault_path: "absent", "dir" (no .git inside) or "repo"
    identity,       \* user.name / user.email are set in the checkout's config
    prev,           \* the commit_and_push call before this one, nothing modified since
    boot            \* main(): where it is, its settings, what it logged

vaultVars == <<tree, index, head, ahead>>
envVars == <<today, groq_api_key, boot>>
taskVars == <<pc, cmd, frame, obs, result, report, git>>
dirVars == <<vault, identity, prev>>
vars == <<today, groq_api_key, tree, index, head, ahead,
          pc, cmd, frame, obs, result, report, git, vault, identity, prev, boot>>

NoFrame == [max_retries |-> 0, delay |-> 0, attempt |-> 0, day |-> 0, week_content |-> <<>>,
            overlapped |-> FALSE]
NoObs == [calls |-> 0, allRL |-> TRUE, last |-> NoOutcome, sleeps |-> <<>>,
          llm |-> 0, llmRL |-> FALSE, wrote |-> {}, save |-> "notrun", log |-> <<>>]
NoGit == [status |-> "notrun", dirty |-> FALSE, add |-> "notrun", commit |-> "notrun",
          push |-> "notrun", ret |-> "none"]

(* ------------------------- dates and paths ---------------------------- *)

\* f"{n:02d}"
Pad2(n) == IF n < 10 THEN "0" \o ToString(n) ELSE ToString(n)

\* date.isoformat() of the d-th of January 2025.
IsoFormat(d) == "2025-01-" \o Pad2(d)

\* date.isocalendar() of the d-th of January 2025 (the 1st is a Wednesday).
IsoCalendar(d) ==
    [year |-> 2025, week |-> ((d + 1) \div 7) + 1, weekday |-> ((d + 1) % 7) + 1]

\* VaultStorage.get_daily_file(day)
DailyPath(d) == "daily/" \o IsoFormat(d) \o ".md"

\* summary_dir / f"{year}-W{week:02d}-summary.md"
SummaryPath(week_date) ==
    LET c == IsoCalendar(week_date)
    IN  "summaries/" \o ToString(c.year) \o "-W" \o Pad2(c.week) \o "-summary.md"

DailyPaths == {DailyPath(d) : d \in Days}
SummaryPaths == {SummaryPath(d) : d \in Days}
Paths == DailyPaths \cup SummaryPaths

\* A path with content <<>> is absent (or empty).
EmptyVault == [f \in Paths |-> <<>>]

\* VaultStorage.read_daily(day): the day's file, empty when it is missing.
ReadDaily(t, day) == IF DailyPath(day) \in DOMAIN t THEN t[DailyPath(day)] ELSE <<>>

\* storage.append_to_daily(transcript, timestamp, "[voice]")
AppendToDaily(t, day) == [t EXCEPT ![DailyPath(day)] = @ \o <<"[voice]">>]

(* -------------------------------- LLM --------------------------------- *)

TextBold == <<"<b>", "Digest", "</b>">>
TextMixed == <<"<i>", "Plan", "</i>", "<u>", "wins", "</u>">>
LlmTexts == {TextBold, TextMixed}

\* The string _call_llm returns when groq_api_key is empty (processor.py:45).
CredMsg == <<"GROQ_API_KEY is not configured">>

\* What client.post / raise_for_status / the JSON access raise.
LlmFailures == {Exc("HTTPStatusError", Err429), Exc("HTTPStatusError", ErrServer),
                Exc("ReadTimeout", ErrTimeout)}

LlmReturned(text, llm) == [kind |-> "return", text |-> text, exc |-> NoExc, llm |-> llm]
LlmRaised(e) == [kind |-> "raise", text |-> <<>>, exc |-> e, llm |-> 1]

\* ClaudeProcessor._call_llm: every way one call can end; llm counts the
\* transport requests it made.
CallLlmOutcomes(key) ==
    IF ~key
    THEN {LlmReturned(CredMsg, 0)}
    ELSE {LlmReturned(t, 1) : t \in LlmTexts} \cup {LlmRaised(e) : e \in LlmFailures}

(* ----------------------- ClaudeProcessor helpers ---------------------- *)

\* Index of the first `close` in s after position 1, 0 when there is none.
FirstClose(s, close) ==
    IF \E j \in 2..Len(s) : s[j] = close
    THEN CHOOSE j \in 2..Len(s) : s[j] = close /\ \A k \in 2..(j - 1) : s[k] # close
    ELSE 0

\* re.sub(r"<t>(.*?)</t>", r"m\1m", text): leftmost, non-greedy, "." stops at
\* a newline.
RECURSIVE SubPair(_, _, _, _)
SubPair(open, close, mark, s) ==
    IF s = <<>> THEN <<>>
    ELSE LET j == FirstClose(s, close)
         IN  IF Head(s) = open /\ j > 0 /\ \A k \in 2..(j - 1) : s[k] # "\n"
             THEN <<mark>> \o SubSeq(s, 2, j - 1) \o <<mark>>
                  \o SubPair(open, close, mark, SubSeq(s, j + 1, Len(s)))
             ELSE <<Head(s)>> \o SubPair(open, close, mark, Tail(s))

\* re.sub(r"</?u>", "", text)
StripUnderline(s) == SelectSeq(s, LAMBDA t : t # "<u>" /\ t # "</u>")

\* ClaudeProcessor._html_to_markdown (the <a href> pass rewrites nothing in a
\* text without anchors).
HtmlToMarkdown(html) ==
    LET b == SubPair("<b>", "</b>", "**", html)
        i == SubPair("<i>", "</i>", "*", b)
        c == SubPair("<code>", "</code>", "(backquote)", i)
        s == SubPair("<s>", "</s>", "~~", c)
    IN  StripUnderline(s)

Frontmatter(week_date) ==
    LET c == IsoCalendar(week_date)
    IN  <<"---", "date: " \o IsoFormat(week_date), "type: weekly-summary",
          "week: " \o ToString(c.year) \o "-W" \o Pad2(c.week), "---", "">>

\* _save_weekly_summary opening the file in append mode.
SaveWeeklySummaryAppend(t, report_html, week_date) ==
    [t EXCEPT ![SummaryPath(week_date)] =
        @ \o Frontmatter(week_date) \o HtmlToMarkdown(report_html)]

\* ClaudeProcessor._save_weekly_summary: the working tree after write_text.
SaveWeeklySummary(t, report_html, week_date) ==
    [t EXCEPT ![SummaryPath(week_date)] =
        Frontmatter(week_date) \o HtmlToMarkdown(report_html)]

\* The error text of processor.py:140, with {day}.
NoDailyMsg(day) == <<"No entries for " \o IsoFormat(day)>>
\* The error text of processor.py:204.
NoWeeklyMsg == <<"No entries for the last week">>
\* The error text of process.py:56 ("request limit exceeded, try later").
TryLaterMsg == <<"Request limit exceeded. Try again later.">>

\* process_daily without the early return of lines 135-140.
ProcessDailyOutcomesNoEmptyCheck(t, key, day) ==
    {IF o.kind = "return"
     THEN Returned([report |-> o.text, processed_entries |-> 1], o.llm)
     ELSE Raised(o.exc, o.llm) : o \in CallLlmOutcomes(key)}

\* ClaudeProcessor.process_daily(day): every way one call can end.
ProcessDailyOutcomes(t, key, day) ==
    LET daily_content == ReadDaily(t, day)
    IN  IF daily_content = <<>>
        THEN {Returned([error |-> NoDailyMsg(day), processed_entries |-> 0], 0)}
        ELSE {IF o.kind = "return"
              THEN Returned([report |-> o.text, processed_entries |-> 1], o.llm)
              ELSE Raised(o.exc, o.llm) : o \in CallLlmOutcomes(key)}

\* The loop of generate_weekly with range(8) for range(7).
RECURSIVE WeekBlocksEightDays(_, _, _)
WeekBlocksEightDays(t, day, i) ==
    IF i >= 8 THEN <<>>
    ELSE LET content == ReadDaily(t, day - i)
         IN  (IF content # <<>>
              THEN <<[marker |-> "--- " \o IsoFormat(day - i) \o " ---",
                      content |-> content]>>
              ELSE <<>>) \o WeekBlocksEightDays(t, day, i + 1)

\* generate_weekly's loop: the blocks of the non-empty days among today,
\* today-1, ..., today-6, in the order read.
RECURSIVE WeekBlocks(_, _, _)
WeekBlocks(t, day, i) ==
    IF i >= 7 THEN <<>>
    ELSE LET content == ReadDaily(t, day - i)
         IN  (IF content # <<>>
              THEN <<[marker |-> "--- " \o IsoFormat(day - i) \o " ---",
                      content |-> content]>>
              ELSE <<>>) \o WeekBlocks(t, day, i + 1)

WeekContent(t, day) == WeekBlocks(t, day, 0)

(* ------------------------------ handlers ------------------------------ *)

\* An except clause as narrow as handle_voice's `except RateLimitException`.
ProcessExceptRateLimitOnly == "RateLimitException"

\* `except Exception as e` of cmd_process (process.py:52) and of cmd_weekly
\* (weekly.py:37).
ProcessExceptClause == "Exception"
WeeklyExceptClause == "Exception"

\* The except block of cmd_weekly in the place of cmd_process's.
ProcessExceptAsWeekly(e) == [error |-> e.msg, processed_entries |-> 0]

\* cmd_process, lines 52-58.
ProcessExcept(e) ==
    LET error_str == Lower(e.msg)
    IN  IF Contains(Marker429, error_str) \/ Contains(MarkerRateLimit, error_str)
        THEN [error |-> TryLaterMsg, processed_entries |-> 0]
        ELSE [error |-> e.msg, processed_entries |-> 0]

\* An error Report that forgets its count.
WeeklyExceptNoCount(e) == [error |-> e.msg]

\* cmd_weekly, lines 37-39.
WeeklyExcept(e) == [error |-> e.msg, processed_entries |-> 0]

\* commit_and_push called whatever the Report holds.
CommitsAfterAlways(rep) == TRUE

\* The commit condition inverted.
CommitsAfterInverted(rep) == "error" \in DOMAIN rep

\* `if "error" not in report:` (process.py:61, weekly.py:42)
CommitsAfter(rep) == "error" \notin DOMAIN rep

(* --------------------------- handle_rate_limit ------------------------ *)

\* The loop body with `attempt <= max_retries` for `attempt < max_retries`.
HrlDecisionOffByOne(attempt, max_retries, delay, o) ==
    IF o.kind = "return"
    THEN [act |-> "return", wait |-> 0, exc |-> NoExc]
    ELSE IF IsRateLimit(o.exc.msg)
         THEN IF attempt <= max_retries
              THEN [act |-> "sleep", wait |-> WaitTime(delay, attempt), exc |-> NoExc]
              ELSE [act |-> "raise", wait |-> 0,
                    exc |-> RateLimitExhausted(max_retries, o.exc)]
         ELSE [act |-> "raise", wait |-> 0, exc |-> o.exc]

\* The body of the loop of handle_rate_limit (utils.py:38-58) on one outcome
\* of `await func(*args, **kwargs)`: return it, sleep and retry, or raise.
HrlDecision(attempt, max_retries, delay, o) ==
    IF o.kind = "return"
    THEN [act |-> "return", wait |-> 0, exc |-> NoExc]
    ELSE IF IsRateLimit(o.exc.msg)
         THEN IF attempt < max_retries
              THEN [act |-> "sleep", wait |-> WaitTime(delay, attempt), exc |-> NoExc]
              ELSE [act |-> "raise", wait |-> 0,
                    exc |-> RateLimitExhausted(max_retries, o.exc)]
         ELSE [act |-> "raise", wait |-> 0, exc |-> o.exc]

\* The operation the retry harness wraps: it returns, or raises any failure.
OpOutcomes ==
    {Returned([value |-> "ok"], 0)} \cup {Raised(Exc("Exception", m), 0) : m \in ErrTexts}

\* Every way one `await func(*args, **kwargs)` of task p can end.
FuncOutcomes(p) ==
    IF cmd[p] = "process"
    THEN ProcessDailyOutcomes(tree, groq_api_key, frame[p].day)
    ELSE OpOutcomes

\* The failure texts that carry a rate-limit marker.
RateLimitTexts == {Err429, ErrRateLimit, ErrTooMany}

\* The awaited call of task p (running command c) ended with `out`: what the
\* caller does next.  cmd_process lines 45-63, cmd_weekly lines 35-43; the
\* retry harness only keeps the result.
EndCall(p, c, out, ob) ==
    LET clause == IF c = "process" THEN ProcessExceptClause ELSE WeeklyExceptClause
        rep == IF out.kind = "return" THEN out.value
               ELSE IF c = "process" THEN ProcessExcept(out.exc)
               ELSE WeeklyExcept(out.exc)
    IN  /\ result' = [result EXCEPT ![p] =
                         [kind |-> out.kind, value |-> out.value, exc |-> out.exc]]
        /\ obs' = [obs EXCEPT ![p] =
                      IF c # "retry" /\ ~(out.kind = "raise" /\ ~Catches(clause, out.exc))
                         /\ CommitsAfter(rep)
                      THEN [ob EXCEPT !.log = Append(@, "commit_and_push")]
                      ELSE ob]
        /\ IF c = "retry"
           THEN pc' = [pc EXCEPT ![p] = "returned"] /\ UNCHANGED report
           ELSE IF out.kind = "raise" /\ ~Catches(clause, out.exc)
           THEN pc' = [pc EXCEPT ![p] = "crashed"] /\ UNCHANGED report
           ELSE /\ report' = [report EXCEPT ![p] = rep]
                /\ pc' = [pc EXCEPT ![p] =
                             IF CommitsAfter(rep) THEN "cp_status" ELSE "done"]

\* Entering handle_rate_limit(func, day, delay=D, max_retries=N): the loop
\* `for attempt in range(max_retries + 1)` starts, or is empty (line 61).
HrlEnter(p, c, N, D, day) ==
    /\ cmd' = [cmd EXCEPT ![p] = c]
    /\ frame' = [frame EXCEPT ![p] =
                    [NoFrame EXCEPT !.max_retries = N, !.delay = D, !.day = day,
                                    !.overlapped = frame[p].overlapped]]
    /\ IF 0 < N + 1
       THEN /\ pc' = [pc EXCEPT ![p] = "hrl_call"]
            /\ UNCHANGED <<obs, result, report>>
       ELSE EndCall(p, c, Raised(RateLimitFallthrough(N), 0), obs[p])

\* The steps of one process_daily call that ended as o, in the order of lines
\* 133-163: read_daily, then _call_llm unless the day was empty.
ProcessDailySteps(o) ==
    IF o.kind = "return" /\ "error" \in DOMAIN o.value
    THEN <<"read">>
    ELSE <<"read", "llm", IF o.kind = "return" THEN "llm return" ELSE "llm raise">>

\* One iteration of the loop: await func, then lines 40-58.
HrlAttempt(p) ==
    /\ pc[p] = "hrl_call"
    /\ \E o \in FuncOutcomes(p) :
         LET f == frame[p]
             d == HrlDecision(f.attempt, f.max_retries, f.delay, o)
             rl == o.kind = "raise" /\ o.exc.msg \in RateLimitTexts
             ob == [obs[p] EXCEPT !.calls = @ + 1, !.allRL = @ /\ rl, !.last = o,
                                  !.llm = @ + o.llm,
                                  !.llmRL = @ \/ (rl /\ o.llm = 1),
                                  !.log = @ \o (IF cmd[p] = "process"
                                                THEN ProcessDailySteps(o) ELSE <<>>)]
         IN  IF d.act = "sleep"
             THEN /\ obs' = [obs EXCEPT ![p] = [ob EXCEPT !.sleeps = Append(@, d.wait)]]
                  /\ pc' = [pc EXCEPT ![p] = "hrl_sleep"]
                  /\ UNCHANGED <<result, report>>
             ELSE EndCall(p, cmd[p], IF d.act = "return" THEN o ELSE Raised(d.exc, 0), ob)
    /\ UNCHANGED <<cmd, frame, git, vaultVars, envVars, dirVars>>

\* asyncio.sleep(wait_time) is over: `continue`, the next iteration.
HrlWake(p) ==
    /\ pc[p] = "hrl_sleep"
    /\ frame' = [frame EXCEPT ![p].attempt = @ + 1]
    /\ IF frame[p].attempt + 1 < frame[p].max_retries + 1
       THEN /\ pc' = [pc EXCEPT ![p] = "hrl_call"]
            /\ UNCHANGED <<obs, result, report>>
       ELSE EndCall(p, cmd[p], Raised(RateLimitFallthrough(frame[p].max_retries), 0),
                    obs[p])
    /\ UNCHANGED <<cmd, git, vaultVars, envVars, dirVars>>

\* The retry harness: handle_rate_limit(op, delay=D, max_retries=N).
CallRetry(p) ==
    /\ pc[p] = "idle"
    /\ \E N \in (0 - 1)..MaxRetriesBound, D \in 1..MaxDelayBound :
         HrlEnter(p, "retry", N, D, 0)
    /\ UNCHANGED <<git, vaultVars, envVars, dirVars>>

(* ------------------------------ the cycles ---------------------------- *)

\* cmd_process up to the first await of process_daily.
CmdProcess(p) ==
    /\ pc[p] = "idle"
    /\ HrlEnter(p, "process", ProcessMaxRetries, ProcessDelay, today)
    /\ UNCHANGED <<git, vaultVars, envVars, dirVars>>

\* cmd_weekly up to the await of _call_llm in generate_weekly (lines 189-228).
\* frame.overlapped is a ghost that outlives the call: it records that two
\* commands have been in flight at the same moment (the handlers take no lock).
CmdWeekly(p) ==
    /\ pc[p] = "idle"
    /\ cmd' = [cmd EXCEPT ![p] = "weekly"]
    /\ frame' = [q \in Procs |->
                    IF q = p
                    THEN [NoFrame EXCEPT !.day = today,
                                         !.week_content = WeekContent(tree, today),
                                         !.overlapped = \/ frame[p].overlapped
                                                        \/ \E o \in Procs \ {p} : pc[o] # "idle"]
                    ELSE [frame[q] EXCEPT !.overlapped = @ \/ pc[q] # "idle"]]
    /\ LET week_content == WeekContent(tree, today)
           ob == [obs[p] EXCEPT !.calls = 1, !.log = Append(@, "read")]
       IN  IF week_content = <<>>
           THEN EndCall(p, "weekly",
                        Returned([error |-> NoWeeklyMsg, processed_entries |-> 0], 0), ob)
           ELSE /\ pc' = [pc EXCEPT ![p] = "wk_llm"]
                /\ obs' = [obs EXCEPT ![p] = ob]
                /\ UNCHANGED <<result, report>>
    /\ UNCHANGED <<git, vaultVars, envVars, dirVars>>

\* What write_text or mkdir raises when the summary cannot be written.
SaveFailure == Exc("OSError", <<"[Errno 28] No space left on device">>)

\* `except Exception as e` around _save_weekly_summary (processor.py:233), and
\* a clause too narrow for what write_text raises.
SaveExceptValueError == "ValueError"
SaveExceptClause == "Exception"

\* generate_weekly lines 230-236 on the text the LLM returned: the Report, or
\* the failure of the save when the except clause does not catch it.
AfterSave(text, llm, saved) ==
    IF saved \/ Catches(SaveExceptClause, SaveFailure)
    THEN Returned([report |-> text, processed_entries |-> 1], llm)
    ELSE Raised(SaveFailure, llm)

\* generate_weekly from the return of _call_llm (lines 228-236), then the rest
\* of cmd_weekly's try block.  write_text may fail: the failure is swallowed.
WeeklyLlm(p) ==
    /\ pc[p] = "wk_llm"
    /\ \E o \in CallLlmOutcomes(groq_api_key) :
         LET rl == o.kind = "raise" /\ o.exc.msg \in RateLimitTexts
             ob == [obs[p] EXCEPT !.llm = @ + o.llm, !.llmRL = @ \/ rl,
                                  !.allRL = rl,
                                  !.log = @ \o <<"llm", IF o.kind = "return"
                                                        THEN "llm return" ELSE "llm raise">>]
         IN  IF o.kind = "raise"
             THEN /\ EndCall(p, "weekly", Raised(o.exc, o.llm),
                             [ob EXCEPT !.last = Raised(o.exc, o.llm)])
                  /\ UNCHANGED tree
             ELSE \E saved \in BOOLEAN :
                    LET out == AfterSave(o.text, o.llm, saved)
                        t == IF saved
                             THEN SaveWeeklySummary(tree, o.text, frame[p].day)
                             ELSE tree
                    IN  /\ tree' = t
                        /\ EndCall(p, "weekly", out,
                                   [ob EXCEPT !.last = out,
                                              !.wrote = {f \in DOMAIN tree : t[f] # tree[f]},
                                              !.save = IF saved THEN "ok" ELSE "fail",
                                              !.log = Append(@, IF saved THEN "save ok"
                                                                ELSE "save fail")])
    /\ UNCHANGED <<cmd, frame, git, index, head, ahead, envVars, dirVars>>

(* -------------------------------- VaultGit ---------------------------- *)

\* The calls of VaultGit a caller can make besides ensure_vault.
GitOps == {"has_changes", "commit_changes", "push", "commit_and_push"}

\* What subprocess.run raises when cwd does not exist.
CwdMissing == Exc("FileNotFoundError", <<"[Errno 2] No such file or directory">>)

\* _run_git (lines 16-24): subprocess.run(["git", ...], cwd=vault_path,
\* check=False).  With vault_path missing the call raises before git starts;
\* in a directory that is no checkout git exits non-zero; in a checkout it
\* exits zero or not.
RunGit(v) ==
    IF v = "absent" THEN {"raise"}
    ELSE IF v = "dir" THEN {"fail"}
    ELSE {"ok", "fail"}

\* A git command of a VaultGit call and how it ended, as the log keeps it.
GitStep(name, rc) == name \o " " \o rc

\* VaultGit.has_changes: `git status --porcelain` prints something, which it
\* does for a staged change and for an unstaged or untracked one.
HasChanges(t, i, h) == i # h \/ t # i

\* bool(self.get_status().strip()): git status printed something.
StatusOutputAnyZeroExit(rc, dirty) == rc = "ok"
StatusOutput(rc, dirty) == rc = "ok" /\ dirty

\* A `git add` that stages nothing.
StageAllNothing(t, i) == i

\* `git add -A`: the index after a successful run.
StageAll(t, i) == t

BoolStr(b) == IF b THEN "True" ELSE "False"

\* VaultGit.commit_and_push lines 86-88, on what commit_changes returned and,
\* when it ran, what push returned.
CommitAndPushReturn(committed, pushed) == IF committed THEN BoolStr(pushed) ELSE "True"

\* What the call op returns, on the commands g it ran.
OpReturn(op, g, committed, pushed) ==
    IF op = "has_changes" THEN BoolStr(StatusOutput(g.status, g.dirty))
    ELSE IF op = "commit_changes" THEN BoolStr(committed)
    ELSE IF op = "push" THEN BoolStr(pushed)
    ELSE CommitAndPushReturn(committed, pushed)

\* The VaultGit call of task p returns: the thread is joined and the handler
\* goes on to send the report.
GitReturn(p, g, committed, pushed) ==
    /\ git' = [git EXCEPT ![p] = [g EXCEPT !.ret = OpReturn(cmd[p], g, committed, pushed)]]
    /\ pc' = [pc EXCEPT ![p] = "done"]
    /\ UNCHANGED result

\* The exception of _run_git leaves the VaultGit call, none of whose methods
\* has a try block; in a handler it leaves asyncio.to_thread outside the
\* handler's try block.
GitRaise(p, g, e) ==
    /\ git' = [git EXCEPT ![p] = g]
    /\ result' = [result EXCEPT ![p] = [kind |-> "raise", value |-> NoValue, exc |-> e]]
    /\ pc' = [pc EXCEPT ![p] = IF cmd[p] \in GitOps THEN "returned" ELSE "crashed"]

\* A direct call of has_changes, commit_changes, push or commit_and_push.
CallGit(p, op) ==
    /\ pc[p] = "idle"
    /\ cmd' = [cmd EXCEPT ![p] = op]
    /\ pc' = [pc EXCEPT ![p] = IF op = "push" THEN "cp_push" ELSE "cp_status"]
    /\ UNCHANGED <<frame, obs, result, report, git, vaultVars, envVars, dirVars>>

\* get_status / has_changes (lines 26-33), alone or as commit_changes line 44
\* calls them: `git status --porcelain` may exit non-zero, its exit status is
\* not read and its stdout is then empty.
GitStatus(p) ==
    /\ pc[p] = "cp_status"
    /\ \E rc \in RunGit(vault) :
         /\ obs' = [obs EXCEPT ![p].log = Append(@, GitStep("status", rc))]
         /\ LET dirty == HasChanges(tree, index, head)
                g == [git[p] EXCEPT !.status = rc, !.dirty = dirty]
            IN  IF rc = "raise"
                THEN GitRaise(p, g, CwdMissing)
                ELSE IF cmd[p] # "has_changes" /\ StatusOutput(rc, dirty)
                THEN /\ git' = [git EXCEPT ![p] = g]
                     /\ pc' = [pc EXCEPT ![p] = "cp_add"]
                     /\ UNCHANGED result
                ELSE GitReturn(p, g, FALSE, FALSE)
    /\ UNCHANGED <<cmd, frame, report, vaultVars, envVars, dirVars>>

\* commit_changes lines 49-52: `git add -A` exits zero or not.
GitAdd(p) ==
    /\ pc[p] = "cp_add"
    /\ \E rc \in RunGit(vault) :
         /\ obs' = [obs EXCEPT ![p].log = Append(@, GitStep("add", rc))]
         /\ IF rc = "raise"
            THEN GitRaise(p, [git[p] EXCEPT !.add = rc], CwdMissing) /\ UNCHANGED index
            ELSE IF rc = "ok"
            THEN /\ index' = StageAll(tree, index)
                 /\ git' = [git EXCEPT ![p].add = "ok"]
                 /\ pc' = [pc EXCEPT ![p] = "cp_commit"]
                 /\ UNCHANGED result
            ELSE /\ GitReturn(p, [git[p] EXCEPT !.add = "fail"], FALSE, FALSE)
                 /\ UNCHANGED index
    /\ UNCHANGED <<cmd, frame, report, tree, head, ahead, envVars, dirVars>>

\* commit_changes lines 55-61: `git commit -m message` exits zero or not; with
\* nothing staged it exits non-zero.
GitCommit(p) ==
    /\ pc[p] = "cp_commit"
    /\ \E rc \in (IF index # head THEN RunGit(vault) ELSE RunGit(vault) \ {"ok"}) :
         /\ obs' = [obs EXCEPT ![p].log = Append(@, GitStep("commit", rc))]
         /\ IF rc = "raise"
            THEN /\ GitRaise(p, [git[p] EXCEPT !.commit = rc], CwdMissing)
                 /\ UNCHANGED <<head, ahead>>
            ELSE IF rc = "ok"
            THEN /\ head' = index
                 /\ ahead' = TRUE
                 /\ IF cmd[p] = "commit_changes"
                    THEN GitReturn(p, [git[p] EXCEPT !.commit = "ok"], TRUE, FALSE)
                    ELSE /\ git' = [git EXCEPT ![p].commit = "ok"]
                         /\ pc' = [pc EXCEPT ![p] = "cp_push"]
                         /\ UNCHANGED result
            ELSE /\ GitReturn(p, [git[p] EXCEPT !.commit = "fail"], FALSE, FALSE)
                 /\ UNCHANGED <<head, ahead>>
    /\ UNCHANGED <<cmd, frame, report, tree, index, envVars, dirVars>>

\* VaultGit.push (lines 63-75): `git push` exits zero or not.
GitPush(p) ==
    /\ pc[p] = "cp_push"
    /\ \E rc \in RunGit(vault) :
         /\ obs' = [obs EXCEPT ![p].log = Append(@, GitStep("push", rc))]
         /\ IF rc = "raise"
            THEN GitRaise(p, [git[p] EXCEPT !.push = rc], CwdMissing) /\ UNCHANGED ahead
            ELSE /\ ahead' = (ahead /\ rc # "ok")
                 /\ GitReturn(p, [git[p] EXCEPT !.push = rc], cmd[p] # "push", rc = "ok")
    /\ UNCHANGED <<cmd, frame, report, tree, index, head, envVars, dirVars>>

\* What is remembered of the commit_and_push call that just ended, for the
\* call that follows it: what it returned, whether it ran a command after git
\* status, and whether the working tree was dirty when it ran or is dirty now.
NoPrev == [ret |-> "none", vault |-> "none", dirty |-> FALSE, ran |-> FALSE]
PrevOf(g, v, now) ==
    [ret |-> g.ret, vault |-> v, dirty |-> g.dirty \/ now,
     ran |-> g.add # "notrun" \/ g.commit # "notrun" \/ g.push # "notrun"]

(* ------------------------------ ensure_vault -------------------------- *)

UrlHttps == <<"https", "://", "github.com/u/vault.git">>
UrlUser == <<"https", "://", "user", "@", "github.com/u/vault.git">>
UrlPath == <<"/srv/vault.git">>
Urls == {<<>>, UrlHttps, UrlUser, UrlPath}
Tokens == {"", "ghp_token"}
Branches == {"main", "notes"}

\* git_url.partition("://")
Partition(url) ==
    LET at == {i \in 1..Len(url) : url[i] = "://"}
    IN  IF at = {}
        THEN [scheme |-> url, limit |-> <<>>, path |-> <<>>]
        ELSE LET i == CHOOSE x \in at : \A y \in at : x <= y
             IN  [scheme |-> SubSeq(url, 1, i - 1), limit |-> <<"://">>,
                  path |-> SubSeq(url, i + 1, Len(url))]

\* Lines 115-119: the token goes in front of the host unless the URL already
\* holds an "@".
AuthUrl(git_url, token) ==
    IF token # "" /\ \A i \in 1..Len(git_url) : git_url[i] # "@"
    THEN LET q == Partition(git_url)
         IN  q.scheme \o q.limit \o <<token, "@">> \o q.path
    ELSE git_url

\* One git command of ensure_vault and its exit status.
GitCmd(name, branch, url, rc) == [git |-> name, branch |-> branch, url |-> url, rc |-> rc]

NoIdentity == [name |-> FALSE, email |-> FALSE]

\* Lines 152-153: the two `git config` commands; their exit status is not read.
ConfigRunsNameOnly(id) ==
    {[cmds |-> <<GitCmd("config user.name", "", <<>>, rc1)>>,
      identity |-> [name |-> id.name \/ rc1 = "ok", email |-> id.email]] :
        rc1 \in {"ok", "fail"}}
ConfigRuns(id) ==
    {[cmds |-> <<GitCmd("config user.name", "", <<>>, rc1),
                 GitCmd("config user.email", "", <<>>, rc2)>>,
      identity |-> [name |-> id.name \/ rc1 = "ok", email |-> id.email \/ rc2 = "ok"]] :
        rc1 \in {"ok", "fail"}, rc2 \in {"ok", "fail"}}

\* (self.vault_path / ".git").exists()
HasCheckoutAnyDirectory(v) == v # "absent"
HasCheckout(v) == v = "repo"

\* self.vault_path.mkdir(parents=True, exist_ok=True)
Mkdir(v) == IF v = "absent" THEN "dir" ELSE v

\* What the remote branch holds when it is cloned.
RemoteAtClone == EmptyVault

\* ensure_vault (lines 110-155) on the vault directory v with working tree t
\* and identity id: how the call can end.  `git clone ... .` needs an empty
\* directory and removes the .git it started on failure.
EnsureVaultOutcomes(v, t, id, git_url, branch, token) ==
    IF git_url = <<>>
    THEN {[ok |-> FALSE, cmds |-> <<>>, vault |-> v, fresh |-> FALSE, identity |-> id]}
    ELSE LET auth_url == AuthUrl(git_url, token)
         IN  IF ~HasCheckout(v)
             THEN {[ok |-> FALSE,
                    cmds |-> <<GitCmd("clone", branch, auth_url, "fail")>>,
                    vault |-> Mkdir(v), fresh |-> FALSE, identity |-> id]}
                  \cup
                  (IF v # "repo" /\ t = EmptyVault
                   THEN {[ok |-> TRUE,
                          cmds |-> <<GitCmd("clone", branch, auth_url, "ok")>> \o c.cmds,
                          vault |-> "repo", fresh |-> TRUE, identity |-> c.identity] :
                            c \in ConfigRuns(NoIdentity)}
                   ELSE {})
             ELSE UNION {
                  {[ok |-> FALSE,
                    cmds |-> <<GitCmd("remote set-url origin", "", auth_url, rcs),
                               GitCmd("pull origin", branch, <<>>, "fail")>>,
                    vault |-> v, fresh |-> FALSE, identity |-> id]}
                  \cup
                  (IF v = "repo"
                   THEN {[ok |-> TRUE,
                          cmds |-> <<GitCmd("remote set-url origin", "", auth_url, rcs),
                                     GitCmd("pull origin", branch, <<>>, "ok")>> \o c.cmds,
                          vault |-> v, fresh |-> FALSE, identity |-> c.identity] :
                            c \in ConfigRuns(id)}
                   ELSE {}) : rcs \in RunGit(v) \ {"raise"}}

\* What the outcome o of ensure_vault leaves on disk: a clone that succeeded
\* brings the remote branch in, anything else keeps the files.
Synced(o) ==
    /\ vault' = o.vault
    /\ identity' = o.identity
    /\ IF o.fresh
       THEN /\ tree' = RemoteAtClone
            /\ index' = RemoteAtClone
            /\ head' = RemoteAtClone
            /\ ahead' = FALSE
       ELSE UNCHANGED vaultVars

\* A call of ensure_vault(git_url, branch, token) outside startup.
EnsureVault(p) ==
    /\ pc[p] = "idle"
    /\ \E git_url \in Urls, branch \in Branches, token \in Tokens :
         \E o \in EnsureVaultOutcomes(vault, tree, identity, git_url, branch, token) :
            /\ result' = [result EXCEPT ![p] =
                             [kind |-> "return",
                              value |-> [ok |-> o.ok, cmds |-> o.cmds, before |-> vault,
                                         git_url |-> git_url, branch |-> branch,
                                         token |-> token],
                              exc |-> NoExc]]
            /\ Synced(o)
    /\ cmd' = [cmd EXCEPT ![p] = "ensure_vault"]
    /\ pc' = [pc EXCEPT ![p] = "returned"]
    /\ prev' = NoPrev
    /\ UNCHANGED <<frame, obs, report, git, envVars>>

\* The handler (or the direct call) is over; its locals are gone.
Return(p) ==
    /\ pc[p] \in {"done", "returned"}
    /\ pc' = [pc EXCEPT ![p] = "idle"]
    /\ cmd' = [cmd EXCEPT ![p] = "none"]
    /\ frame' = [frame EXCEPT ![p] = [NoFrame EXCEPT !.overlapped = frame[p].overlapped]]
    /\ obs' = [obs EXCEPT ![p] = NoObs]
    /\ result' = [result EXCEPT ![p] = NoResult]
    /\ report' = [report EXCEPT ![p] = NoReport]
    /\ git' = [git EXCEPT ![p] = NoGit]
    /\ prev' = IF cmd[p] = "commit_and_push" /\ pc[p] = "done"
               THEN PrevOf(git[p], vault, HasChanges(tree, index, head))
               ELSE IF cmd[p] \in GitOps \cup {"ensure_vault"} THEN NoPrev
               ELSE prev
    /\ UNCHANGED <<vaultVars, envVars, vault, identity>>

(* ----------------------------- environment ---------------------------- *)

\* The entries in the daily files of the days ds.
RECURSIVE Entries(_, _)
Entries(t, ds) ==
    IF ds = {} THEN 0
    ELSE LET d == CHOOSE x \in ds : TRUE
         IN  Len(t[DailyPath(d)]) + Entries(t, ds \ {d})

\* handle_voice line 57: a transcript is appended to today's daily file.
AppendEntry ==
    /\ vault # "absent"
    /\ Entries(tree, Days) < MaxEntries
    /\ tree' = AppendToDaily(tree, today)
    /\ prev' = NoPrev
    /\ UNCHANGED <<index, head, ahead, envVars, taskVars, vault, identity>>

\* Midnight.
NextDay ==
    /\ today < LastDay
    /\ today' = today + 1
    /\ UNCHANGED <<groq_api_key, boot, vaultVars, taskVars, dirVars>>

(* -------------------------------- startup ----------------------------- *)

\* settings.vault_git_url (empty when VAULT_GIT_URL is not set),
\* settings.vault_git_branch and settings.github_token.
Settings ==
    [vault_git_url : Urls \cup {<<>>}, vault_git_branch : Branches, github_token : Tokens]

NoSettings == [vault_git_url |-> <<>>, vault_git_branch |-> "main", github_token |-> ""]

\* main() has been entered with settings s.
Booting(s) == [pc |-> "start", settings |-> s, syncs |-> 0, outcome |-> "none", log |-> <<>>]

\* The bot is up: where the specifications of the handlers start.
BotUp == [Booting(NoSettings) EXCEPT !.pc = "serving"]

LogSyncing == "info: Syncing vault from <url>..."
LogSyncFailed == "error: Failed to sync vault: <e>"
LogNoUrl == "warning: No VAULT_GIT_URL configured. Persistence is disabled!"
LogEnsureOk == "info: Vault cloned successfully / Vault updated"
LogEnsureFailed == "error: Git clone failed / Git pull failed"

\* What ensure_vault raises: mkdir cannot create vault_path, or
\* subprocess.run finds no git executable.
MkdirFailure == Exc("PermissionError", <<"[Errno 13] Permission denied">>)
GitMissing == Exc("FileNotFoundError", <<"[Errno 2] No such file or directory: 'git'">>)
EnsureVaultRaises(v) == IF v = "absent" THEN {MkdirFailure, GitMissing} ELSE {GitMissing}

\* An except clause that lets the failures of the sync through.
StartupExceptGitError == "GitError"

\* main line 37: `except Exception as e`.
StartupExceptClause == "Exception"

\* main lines 20-28 and 42-43: the settings are read; with a vault URL the
\* sync is announced, without one a warning is logged.
StartupSettings ==
    /\ boot.pc = "start"
    /\ boot' = IF boot.settings.vault_git_url # <<>>
               THEN [boot EXCEPT !.pc = "sync", !.log = Append(@, LogSyncing)]
               ELSE [boot EXCEPT !.pc = "run_bot", !.outcome = "no url",
                                 !.log = Append(@, LogNoUrl)]
    /\ UNCHANGED <<today, groq_api_key, vaultVars, taskVars, dirVars>>

\* main lines 30-36: ensure_vault runs in a thread and main awaits it; it
\* returns True or False (logging the failure itself), and main does not
\* read the value.
StartupSync ==
    /\ boot.pc = "sync"
    /\ \E o \in EnsureVaultOutcomes(vault, tree, identity, boot.settings.vault_git_url,
                                     boot.settings.vault_git_branch,
                                     boot.settings.github_token) :
         /\ Synced(o)
         /\ boot' = [boot EXCEPT !.pc = "run_bot", !.syncs = @ + 1,
                                 !.outcome = BoolStr(o.ok),
                                 !.log = Append(@, IF o.ok THEN LogEnsureOk
                                                   ELSE LogEnsureFailed)]
    /\ prev' = NoPrev
    /\ UNCHANGED <<today, groq_api_key, taskVars>>

\* main lines 30-41: ensure_vault raises; the except clause logs and main
\* goes on, or the exception leaves main and asyncio.run.
StartupSyncRaises ==
    /\ boot.pc = "sync"
    /\ \E e \in EnsureVaultRaises(vault) :
         boot' = IF Catches(StartupExceptClause, e)
                 THEN [boot EXCEPT !.pc = "run_bot", !.syncs = @ + 1, !.outcome = "raise",
                                   !.log = Append(@, LogSyncFailed)]
                 ELSE [boot EXCEPT !.pc = "aborted", !.syncs = @ + 1, !.outcome = "raise"]
    /\ UNCHANGED <<today, groq_api_key, vaultVars, taskVars, dirVars>>

\* main line 45: run_bot(settings) starts the dispatcher.
RunBot ==
    /\ boot.pc = "run_bot"
    /\ boot' = [boot EXCEPT !.pc = "serving"]
    /\ UNCHANGED <<today, groq_api_key, vaultVars, taskVars, dirVars>>

(* --------------------------- specifications --------------------------- *)

\* After startup: a fresh checkout of an empty vault, no handler running.
Init ==
    /\ today = 5
    /\ groq_api_key \in BOOLEAN
    /\ tree = EmptyVault
    /\ index = EmptyVault
    /\ head = EmptyVault
    /\ ahead = FALSE
    /\ pc = [p \in Procs |-> "idle"]
    /\ cmd = [p \in Procs |-> "none"]
    /\ frame = [p \in Procs |-> NoFrame]
    /\ obs = [p \in Procs |-> NoObs]
    /\ result = [p \in Procs |-> NoResult]
    /\ report = [p \in Procs |-> NoReport]
    /\ git = [p \in Procs |-> NoGit]
    /\ vault = "repo"
    /\ identity = [name |-> TRUE, email |-> TRUE]
    /\ prev = NoPrev
    /\ boot = BotUp

\* Cycles are serialized: one handler task runs them, one after the other.
SerialProcs == {"h1"}

\* The synthesis cycles, one in flight at a time, beside the voice handler.
Next ==
    \/ \E p \in SerialProcs : CmdProcess(p)
    \/ \E p \in SerialProcs : CmdWeekly(p)
    \/ \E p \in SerialProcs : HrlAttempt(p)
    \/ \E p \in SerialProcs : HrlWake(p)
    \/ \E p \in SerialProcs : WeeklyLlm(p)
    \/ \E p \in SerialProcs : GitStatus(p)
    \/ \E p \in SerialProcs : GitAdd(p)
    \/ \E p \in SerialProcs : GitCommit(p)
    \/ \E p \in SerialProcs : GitPush(p)
    \/ \E p \in SerialProcs : Return(p)
    \/ AppendEntry
    \/ NextDay

Spec == Init /\ [][Next]_vars

\* handle_rate_limit alone, on an operation with arbitrary outcomes.
NextRetry ==
    \/ \E p \in Procs : CallRetry(p)
    \/ \E p \in Procs : HrlAttempt(p)
    \/ \E p \in Procs : HrlWake(p)
    \/ \E p \in Procs : Return(p)

SpecRetry == Init /\ [][NextRetry]_vars

\* Before the first startup: no vault directory yet.
InitGit ==
    /\ today = 5
    /\ groq_api_key \in BOOLEAN
    /\ tree = EmptyVault
    /\ index = EmptyVault
    /\ head = EmptyVault
    /\ ahead = FALSE
    /\ pc = [p \in Procs |-> "idle"]
    /\ cmd = [p \in Procs |-> "none"]
    /\ frame = [p \in Procs |-> NoFrame]
    /\ obs = [p \in Procs |-> NoObs]
    /\ result = [p \in Procs |-> NoResult]
    /\ report = [p \in Procs |-> NoReport]
    /\ git = [p \in Procs |-> NoGit]
    /\ vault = "absent"
    /\ identity = NoIdentity
    /\ prev = NoPrev
    /\ boot = BotUp

\* The vault of the weekly specification: a daily file and a summary file for
\* each of the first days of January.
WeekLastDay == 9
WeekDays == 1..WeekLastDay
WeekPaths == {DailyPath(d) : d \in WeekDays} \cup {SummaryPath(d) : d \in WeekDays}
\* The vault whose non-empty daily files are those of the days ds.
WeekVault(ds) ==
    [f \in WeekPaths |->
        IF \E d \in ds : f = DailyPath(d)
        THEN <<"entry of " \o IsoFormat(CHOOSE d \in ds : f = DailyPath(d))>>
        ELSE <<>>]
WeekVaults == {WeekVault(ds) : ds \in SUBSET WeekDays}

\* A synchronized checkout that holds any of the daily files, on a day with
\* seven days behind it.
InitWeekly ==
    /\ today \in 7..WeekLastDay
    /\ groq_api_key \in BOOLEAN
    /\ tree \in WeekVaults
    /\ index = tree
    /\ head = tree
    /\ ahead = FALSE
    /\ pc = [p \in Procs |-> "idle"]
    /\ cmd = [p \in Procs |-> "none"]
    /\ frame = [p \in Procs |-> NoFrame]
    /\ obs = [p \in Procs |-> NoObs]
    /\ result = [p \in Procs |-> NoResult]
    /\ report = [p \in Procs |-> NoReport]
    /\ git = [p \in Procs |-> NoGit]
    /\ vault = "repo"
    /\ identity = [name |-> TRUE, email |-> TRUE]
    /\ prev = NoPrev
    /\ boot = BotUp

\* generate_weekly alone, as cmd_weekly calls it.
NextWeekly ==
    \/ \E p \in SerialProcs : CmdWeekly(p)
    \/ \E p \in SerialProcs : WeeklyLlm(p)
    \/ \E p \in SerialProcs : Return(p)

SpecWeekly == InitWeekly /\ [][NextWeekly]_vars

\* A synchronized checkout that holds one entry, of today.
InitSummary ==
    /\ today = 5
    /\ groq_api_key \in BOOLEAN
    /\ tree = AppendToDaily(EmptyVault, 5)
    /\ index = tree
    /\ head = tree
    /\ ahead = FALSE
    /\ pc = [p \in Procs |-> "idle"]
    /\ cmd = [p \in Procs |-> "none"]
    /\ frame = [p \in Procs |-> NoFrame]
    /\ obs = [p \in Procs |-> NoObs]
    /\ result = [p \in Procs |-> NoResult]
    /\ report = [p \in Procs |-> NoReport]
    /\ git = [p \in Procs |-> NoGit]
    /\ vault = "repo"
    /\ identity = [name |-> TRUE, email |-> TRUE]
    /\ prev = NoPrev
    /\ boot = BotUp

\* Weekly cycles one after the other, over the days.
NextSummary ==
    \/ \E p \in SerialProcs : CmdWeekly(p)
    \/ \E p \in SerialProcs : WeeklyLlm(p)
    \/ \E p \in SerialProcs : GitStatus(p)
    \/ \E p \in SerialProcs : GitAdd(p)
    \/ \E p \in SerialProcs : GitCommit(p)
    \/ \E p \in SerialProcs : GitPush(p)
    \/ \E p \in SerialProcs : Return(p)
    \/ NextDay

SpecSummary == InitSummary /\ [][NextSummary]_vars

\* A modification of the vault made while no VaultGit call is in flight.
ModifyBetweenCalls ==
    /\ \A p \in Procs : pc[p] = "idle"
    /\ AppendEntry

\* commit_and_push alone on a checkout that starts in sync with its remote:
\* calls one after the other, modifications only between them.
NextSync ==
    \/ \E p \in SerialProcs : CallGit(p, "commit_and_push")
    \/ \E p \in SerialProcs : GitStatus(p)
    \/ \E p \in SerialProcs : GitAdd(p)
    \/ \E p \in SerialProcs : GitCommit(p)
    \/ \E p \in SerialProcs : GitPush(p)
    \/ \E p \in SerialProcs : Return(p)
    \/ ModifyBetweenCalls

SpecSync == Init /\ [][NextSync]_vars

\* Weekly cycles of both tasks on one vault: the handlers run as coroutines of
\* one event loop and hand their blocking work to threads, so the steps of two
\* cycles interleave freely; VaultGit holds no lock.
NextConc ==
    \/ \E p \in Procs : CmdWeekly(p)
    \/ \E p \in Procs : WeeklyLlm(p)
    \/ \E p \in Procs : GitStatus(p)
    \/ \E p \in Procs : GitAdd(p)
    \/ \E p \in Procs : GitCommit(p)
    \/ \E p \in Procs : GitPush(p)
    \/ \E p \in Procs : Return(p)

SpecConc == InitSummary /\ [][NextConc]_vars

\* The bot serves: a voice message is stored, a VaultGit call is made.
Serve ==
    /\ boot.pc = "serving"
    /\ \/ AppendEntry
       \/ \E p \in SerialProcs : CallGit(p, "commit_and_push")
       \/ \E p \in SerialProcs : GitStatus(p)
       \/ \E p \in SerialProcs : GitAdd(p)
       \/ \E p \in SerialProcs : GitCommit(p)
       \/ \E p \in SerialProcs : GitPush(p)
       \/ \E p \in SerialProcs : Return(p)

\* The process starts: no vault directory yet, or the checkout an earlier run
\* left, and the settings of the environment.
InitStartup ==
    /\ today = 5
    /\ groq_api_key \in BOOLEAN
    /\ tree = EmptyVault
    /\ index = EmptyVault
    /\ head = EmptyVault
    /\ ahead = FALSE
    /\ pc = [p \in Procs |-> "idle"]
    /\ cmd = [p \in Procs |-> "none"]
    /\ frame = [p \in Procs |-> NoFrame]
    /\ obs = [p \in Procs |-> NoObs]
    /\ result = [p \in Procs |-> NoResult]
    /\ report = [p \in Procs |-> NoReport]
    /\ git = [p \in Procs |-> NoGit]
    /\ vault \in {"absent", "repo"}
    /\ identity = IF vault = "repo" THEN [name |-> TRUE, email |-> TRUE] ELSE NoIdentity
    /\ prev = NoPrev
    /\ boot \in {Booting(s) : s \in Settings}

NextStartup ==
    \/ StartupSettings
    \/ StartupSync
    \/ StartupSyncRaises
    \/ RunBot
    \/ Serve

\* main is one coroutine that nothing competes with before run_bot: each of
\* its steps is taken once it can be, the awaited thread included (git exits).
SpecStartup ==
    /\ InitStartup
    /\ [][NextStartup]_vars
    /\ WF_vars(StartupSettings)
    /\ WF_vars(StartupSync \/ StartupSyncRaises)
    /\ WF_vars(RunBot)

\* VaultGit alone: its calls one after the other, in any order and with any
\* outcome of the git commands, beside the voice handler.
NextGit ==
    \/ \E p \in SerialProcs : \E op \in GitOps : CallGit(p, op)
    \/ \E p \in SerialProcs : EnsureVault(p)
    \/ \E p \in SerialProcs : GitStatus(p)
    \/ \E p \in SerialProcs : GitAdd(p)
    \/ \E p \in SerialProcs : GitCommit(p)
    \/ \E p \in SerialProcs : GitPush(p)
    \/ \E p \in SerialProcs : Return(p)
    \/ AppendEntry

SpecGit == InitGit /\ [][NextGit]_vars

(* ------------------------- claims: the retry wrapper ------------------ *)

RECURSIVE SumSeq(_)
SumSeq(q) == IF q = <<>> THEN 0 ELSE Head(q) + SumSeq(Tail(q))

\* Task p runs the harness call with max_retries >= 0.
InRetry(p) == cmd[p] = "retry" /\ frame[p].max_retries >= 0

\* C1: for every max_retries N >= 0 and base delay D, when every invocation
\* of the wrapped operation raises a rate-limit failure, handle_rate_limit
\* invokes it exactly N+1 times, sleeps exactly N times, the sleep after
\* zero-based attempt k being D*2^k (D*(2^N - 1) in total), does not sleep
\* after the last attempt, and raises RateLimitException whose message carries
\* the last underlying error text and N.
C1_ExhaustedAfterBackoff ==
    \A p \in Procs :
        (InRetry(p) /\ obs[p].allRL /\ obs[p].calls > 0) =>
            LET N == frame[p].max_retries
                D == frame[p].delay
                z == obs[p].sleeps
            IN  /\ \A k \in 1..Len(z) : z[k] = D * (2 ^ (k - 1))
                /\ pc[p] = "hrl_sleep" => Len(z) = obs[p].calls /\ obs[p].calls <= N
                /\ pc[p] = "hrl_call" => Len(z) = obs[p].calls /\ obs[p].calls <= N
                /\ pc[p] \in {"hrl_sleep", "hrl_call", "returned"}
                /\ pc[p] = "returned" =>
                      /\ obs[p].calls = N + 1
                      /\ Len(z) = N
                      /\ SumSeq(z) = D * ((2 ^ N) - 1)
                      /\ result[p].kind = "raise"
                      /\ result[p].exc.type = "RateLimitException"
                      /\ result[p].exc.msg =
                            ExhaustedPrefix \o Digits(N) \o ExhaustedInfix
                                \o obs[p].last.exc.msg

\* A call with three retries, all four invocations rate-limited, has ended.
C1_Witness ==
    \E p \in Procs :
        /\ InRetry(p) /\ frame[p].max_retries = 3 /\ frame[p].delay = 2
        /\ obs[p].allRL /\ obs[p].calls = 4
        /\ pc[p] = "returned"
        /\ obs[p].sleeps = <<2, 4, 8>>

\* C2: when an invocation of the wrapped operation raises a failure whose
\* message carries no rate-limit marker, that same failure reaches the caller
\* at once: no sleep follows it, no further attempt is made, it is not turned
\* into RateLimitException; on the first attempt that makes exactly 1 attempt.
C2_OtherFailurePropagates ==
    \A p \in Procs :
        (InRetry(p) /\ obs[p].last.kind = "raise"
            /\ obs[p].last.exc.msg \notin RateLimitTexts) =>
            /\ pc[p] = "returned"
            /\ result[p].kind = "raise"
            /\ result[p].exc = obs[p].last.exc
            /\ result[p].exc.type # "RateLimitException"
            /\ obs[p].calls = frame[p].attempt + 1
            /\ Len(obs[p].sleeps) = obs[p].calls - 1

\* A call whose second invocation raised "rate-limited", which carries none of
\* the markers, has ended.
C2_Witness ==
    \E p \in Procs :
        /\ InRetry(p) /\ pc[p] = "returned"
        /\ obs[p].last.kind = "raise" /\ obs[p].last.exc.msg = ErrRateHyphen
        /\ obs[p].calls = 2
        /\ result[p].exc.msg = ErrRateHyphen

\* C3: for every N >= 0 and every sequence of outcomes, one handle_rate_limit
\* call invokes the operation at most N+1 times and ends in exactly one of
\* three ways: the operation's result, the operation's own failure carrying no
\* rate-limit marker, or RateLimitException; a success on any attempt ends the
\* call with no further attempt or sleep.
C3_BoundedAttemptsThreeOutcomes ==
    \A p \in Procs :
        InRetry(p) =>
            LET N == frame[p].max_retries
                last == obs[p].last
            IN  /\ obs[p].calls <= N + 1
                /\ frame[p].attempt <= N
                /\ pc[p] \in {"hrl_call", "hrl_sleep", "returned"}
                /\ pc[p] = "hrl_call" => obs[p].calls = frame[p].attempt
                /\ pc[p] # "hrl_call" => obs[p].calls = frame[p].attempt + 1
                /\ pc[p] = "returned" =>
                      \/ /\ last.kind = "return"
                         /\ result[p].kind = "return"
                         /\ result[p].value = last.value
                      \/ /\ last.kind = "raise" /\ last.exc.msg \notin RateLimitTexts
                         /\ result[p].kind = "raise"
                         /\ result[p].exc = last.exc
                      \/ /\ last.kind = "raise" /\ last.exc.msg \in RateLimitTexts
                         /\ result[p].kind = "raise"
                         /\ result[p].exc = RateLimitExhausted(N, last.exc)
                         /\ obs[p].calls = N + 1
                /\ last.kind = "return" =>
                      /\ pc[p] = "returned"
                      /\ result[p].kind = "return"
                      /\ Len(obs[p].sleeps) = obs[p].calls - 1

\* A call that succeeded on its third invocation, after two sleeps.
C3_Witness ==
    \E p \in Procs :
        /\ InRetry(p) /\ pc[p] = "returned"
        /\ obs[p].last.kind = "return" /\ result[p].kind = "return"
        /\ obs[p].calls = 3 /\ Len(obs[p].sleeps) = 2
        /\ frame[p].max_retries = 3

(* ------------------------ claims: the synthesis cycles ---------------- *)

\* Task p runs a daily or a weekly synthesis cycle.
InCycle(p) == cmd[p] \in {"process", "weekly"}

\* The Report of task p's cycle is in the handler's hands.
Reported(p) == InCycle(p) /\ report[p] # NoReport

IsError(rep) == "error" \in DOMAIN rep
IsSuccess(rep) ==
    "report" \in DOMAIN rep /\ "error" \notin DOMAIN rep /\ rep.processed_entries = 1

\* C4: in both the daily and the weekly cycle the LLM call goes through the
\* retry wrapper: when the LLM call raises a rate-limit failure, the call is
\* retried with backoff before any failure is surfaced in the Report, and a
\* later successful attempt yields a successful Report.
C4_LlmCallRetriedInBothCycles ==
    \A p \in Procs :
        (Reported(p) /\ obs[p].llmRL) =>
            /\ obs[p].llm >= 2
            /\ Len(obs[p].sleeps) >= 1
            /\ obs[p].last.kind = "return" => IsSuccess(report[p])

\* C5: a synthesis cycle never lets a failure of the LLM call escape: in the
\* daily and in the weekly cycle, when the awaited call ends by raising
\* (rate-limit-exhausted or any other failure), the handler holds a Report
\* with an `error` field and processed_entries = 0, no summary file was
\* written and no commit or push is attempted in that cycle.
C5_LlmFailureBecomesErrorReport ==
    \A p \in Procs :
        InCycle(p) =>
            /\ pc[p] # "crashed"
            /\ (obs[p].last.kind = "raise" /\ pc[p] \notin {"hrl_call", "hrl_sleep"})
                  => result[p].kind = "raise"
            /\ result[p].kind = "raise" =>
                  /\ pc[p] = "done"
                  /\ IsError(report[p])
                  /\ "report" \notin DOMAIN report[p]
                  /\ report[p].processed_entries = 0
                  /\ obs[p].wrote = {}
                  /\ obs[p].save = "notrun"
                  /\ git[p] = NoGit

\* A daily cycle ended by a server error of the LLM transport, and a weekly
\* one ended by a rate-limit failure.
C5_Witness ==
    \E p \in Procs :
        /\ pc[p] = "done" /\ result[p].kind = "raise"
        /\ \/ cmd[p] = "process" /\ result[p].exc = Exc("HTTPStatusError", ErrServer)
           \/ cmd[p] = "weekly" /\ result[p].exc = Exc("HTTPStatusError", Err429)

\* C6: every Report of a daily or weekly cycle, on every path, holds exactly
\* one of the keys `report` / `error`, together with processed_entries, which
\* is 0 when `error` is present and 1 when `report` is present.
C6_ReportIsSumType ==
    \A p \in Procs :
        Reported(p) =>
            /\ DOMAIN report[p] \in {{"report", "processed_entries"},
                                     {"error", "processed_entries"}}
            /\ IsError(report[p]) => report[p].processed_entries = 0
            /\ "report" \in DOMAIN report[p] => report[p].processed_entries = 1

\* The Report of a daily cycle whose retries were exhausted.
C6_Witness ==
    \E p \in Procs :
        /\ cmd[p] = "process" /\ pc[p] = "done"
        /\ result[p].kind = "raise" /\ result[p].exc.type = "RateLimitException"
        /\ report[p] = [error |-> TryLaterMsg, processed_entries |-> 0]

\* C7: with groq_api_key missing, a synthesis call makes no transport request
\* and raises nothing, and the cycle's result is not a successful Report
\* (`report` with processed_entries = 1) and triggers no commit or push.
C7_MissingCredentialIsNotSuccess ==
    \A p \in Procs :
        (Reported(p) /\ ~groq_api_key) =>
            /\ obs[p].llm = 0
            /\ result[p].kind # "raise"
            /\ ~IsSuccess(report[p])
            /\ git[p] = NoGit
            /\ pc[p] = "done"

\* The contents _save_weekly_summary writes for a successful LLM synthesis.
SummaryOfSynthesis == {Frontmatter(d) \o HtmlToMarkdown(t) : d \in Days, t \in LlmTexts}

\* C8: a weekly summary file is created or overwritten only by a weekly cycle
\* whose LLM synthesis succeeded: every summary file holds the converted
\* output of a successful LLM synthesis, and no cycle that had no entries,
\* whose LLM call failed or whose credential was missing writes one.
C8_SummaryOnlyFromSuccessfulSynthesis ==
    /\ \A f \in SummaryPaths : tree[f] # <<>> => tree[f] \in SummaryOfSynthesis
    /\ \A p \in Procs :
          obs[p].save = "ok" =>
              /\ cmd[p] = "weekly" /\ groq_api_key
              /\ obs[p].llm = 1 /\ obs[p].last.kind = "return"

\* No handler task is running a cycle.
AllIdle == \A p \in Procs : pc[p] = "idle"

\* Summary files are written by synthesis cycles only: one that differs from
\* HEAD is an uncommitted modification of a cycle.
SummariesCommitted == \A f \in SummaryPaths : tree[f] = head[f]

\* C9: every cycle that produced modifications has committed them by the time
\* it returns, for every outcome of git add / commit / push, so that at the
\* start of a cycle (cycles serialized) the working tree holds no uncommitted
\* modification of an earlier cycle.
C9_CycleCommitsBeforeReturning ==
    /\ \A p \in Procs : (InCycle(p) /\ pc[p] = "done") => SummariesCommitted
    /\ AllIdle => SummariesCommitted

\* C9 as amended: a cycle that produced modifications has called
\* commit_and_push by the time it returns, and has committed them unless git
\* status, git add or git commit exited non-zero in that call.
C9_CycleCommitsUnlessGitFails ==
    \A p \in Procs :
        (InCycle(p) /\ pc[p] = "done" /\ obs[p].wrote # {}) =>
            /\ git[p].status # "notrun"
            /\ \/ git[p].status = "fail"
               \/ git[p].add = "fail"
               \/ git[p].commit = "fail"
               \/ SummariesCommitted

\* A weekly cycle wrote its summary, committed it, and the push failed.
C9_Witness ==
    \E p \in Procs :
        /\ cmd[p] = "weekly" /\ pc[p] = "done" /\ obs[p].wrote # {}
        /\ git[p].commit = "ok" /\ git[p].push = "fail"
        /\ SummariesCommitted

\* C10: commit_and_push returns True only if the working tree had no local
\* changes or the changes were staged, committed and pushed; with local
\* changes and a failing git add or git commit it does not return True.
C10_TrueOnlyOnSuccess ==
    \A p \in Procs :
        git[p].ret = "True" =>
            \/ ~git[p].dirty
            \/ git[p].add = "ok" /\ git[p].commit = "ok" /\ git[p].push = "ok"

(* ----------------------------- claims: VaultGit ----------------------- *)

\* Task p runs a direct commit_and_push that follows, with nothing modified
\* in between, a commit_and_push that found a checkout with a clean tree.
SecondCleanCall(p) ==
    /\ cmd[p] = "commit_and_push"
    /\ pc[p] # "idle"
    /\ prev.ret # "none"
    /\ prev.vault = "repo"
    /\ ~prev.dirty

\* C11: commit_and_push is idempotent when there is nothing to commit: in a
\* checkout with a clean working tree, two calls in a row with no modification
\* in between both return True and neither runs git add, git commit or git
\* push, so the history and the remote stay as they were.
C11_IdempotentWhenClean ==
    \A p \in Procs :
        SecondCleanCall(p) =>
            /\ prev.ret = "True"
            /\ ~prev.ran
            /\ pc[p] \in {"cp_status", "done"}
            /\ pc[p] = "done" =>
                   /\ git[p].ret = "True"
                   /\ ~git[p].dirty
                   /\ git[p].add = "notrun"
                   /\ git[p].commit = "notrun"
                   /\ git[p].push = "notrun"

\* Both calls have returned; the checkout holds a commit that was never pushed.
C11_Witness ==
    \E p \in Procs :
        /\ SecondCleanCall(p)
        /\ pc[p] = "done"
        /\ git[p].status = "ok"
        /\ git[p].ret = "True"
        /\ ahead

\* The three states of the vault working directory.
VaultAbsent == vault = "absent"
FreshCheckout == vault = "repo" /\ ~HasChanges(tree, index, head)
ModifiedCheckout == vault = "repo" /\ HasChanges(tree, index, head)

\* C12: after any sequence of ensure_vault, commit_changes, push and
\* commit_and_push calls, with any outcomes, the vault working directory is
\* absent, or a fresh checkout of the branch, or a checkout with uncommitted
\* modifications, and nothing else: a failed clone does not leave a directory
\* that exists but is not a checkout.
C12_ThreeDirectoryStates ==
    \/ VaultAbsent /\ ~FreshCheckout /\ ~ModifiedCheckout
    \/ ~VaultAbsent /\ FreshCheckout /\ ~ModifiedCheckout
    \/ ~VaultAbsent /\ ~FreshCheckout /\ ModifiedCheckout

\* Task p holds the result of an ensure_vault call that was given a URL.
EnsureReturned(p) ==
    /\ cmd[p] = "ensure_vault"
    /\ pc[p] = "returned"
    /\ result[p].value.git_url # <<>>

\* The URL u carries the token of the call r when there is one to carry.
Authenticated(u, r) ==
    IF r.token # "" /\ \A i \in 1..Len(r.git_url) : r.git_url[i] # "@"
    THEN /\ \E i \in 1..Len(u) - 1 : u[i] = r.token /\ u[i + 1] = "@"
         /\ Len(u) = Len(r.git_url) + 2
    ELSE u = r.git_url

\* What a returned ensure_vault call has run, by what it found.
EnsureTookRightPath(p) ==
    LET r == result[p].value
        ran == {r.cmds[i].git : i \in 1..Len(r.cmds)}
    IN  /\ r.before = "repo" =>
               /\ "clone" \notin ran
               /\ Len(r.cmds) >= 2
               /\ r.cmds[1].git = "remote set-url origin"
               /\ Authenticated(r.cmds[1].url, r)
               /\ r.cmds[2].git = "pull origin"
               /\ r.cmds[2].branch = r.branch
               /\ vault = "repo"
        /\ r.before # "repo" =>
               /\ r.cmds[1].git = "clone"
               /\ r.cmds[1].branch = r.branch
               /\ Authenticated(r.cmds[1].url, r)
               /\ "pull origin" \notin ran
               /\ vault = (IF r.cmds[1].rc = "ok" THEN "repo" ELSE "dir")
        /\ r.ok => vault = "repo"

\* A checkout stays the checkout it is: no call removes it or puts a fresh
\* clone in its place.
CheckoutKept ==
    vault = "repo" =>
        /\ vault' = "repo"
        /\ (\E p \in Procs : cmd'[p] = "ensure_vault" /\ pc[p] = "idle") =>
               UNCHANGED vaultVars

\* C13: ensure_vault on a directory that holds a checkout never runs git
\* clone: it re-points origin to the authenticated URL and pulls the branch;
\* it clones only when there is no checkout.  Calls can be repeated: after a
\* successful call every later call pulls and the checkout is never replaced,
\* and after a failed clone the next call clones again.
C13_CloneOnlyWithoutCheckout ==
    /\ [](\A p \in Procs : EnsureReturned(p) => EnsureTookRightPath(p))
    /\ [][CheckoutKept]_vars

\* A call has pulled into the checkout an earlier call made, with a token.
C13_Witness ==
    \E p \in Procs :
        /\ EnsureReturned(p)
        /\ result[p].value.before = "repo"
        /\ result[p].value.ok
        /\ result[p].value.token # ""
        /\ result[p].value.git_url = UrlHttps
        /\ ahead

\* What ensure_vault returns, by the arguments and the commands of the call:
\* False with no command run for an empty URL, False when the clone or the
\* pull exited non-zero, True otherwise.
EnsureReturnValue(p) ==
    LET r == result[p].value
    IN  /\ result[p].kind = "return"
        /\ r.git_url = <<>> => ~r.ok /\ r.cmds = <<>>
        /\ r.git_url # <<>> =>
               (r.ok <=> \A i \in 1..Len(r.cmds) :
                             r.cmds[i].git \in {"clone", "pull origin"} =>
                                 r.cmds[i].rc = "ok")

\* C14: ensure_vault never raises: it returns False, running no git command,
\* for an empty URL, False when the clone or the pull exits non-zero, and True
\* in every other case.  And no VaultGit operation (has_changes,
\* commit_changes, push, commit_and_push, ensure_vault) lets a failure of a git
\* subprocess escape as an exception, whatever the state of the working
\* directory, absent included.
C14_NoVaultGitCallRaises ==
    \A p \in Procs :
        /\ cmd[p] \in GitOps => result[p].kind # "raise"
        /\ cmd[p] = "ensure_vault" /\ pc[p] = "returned" => EnsureReturnValue(p)

\* The half of C14 that is about ensure_vault alone.
C14_EnsureVaultPart ==
    \A p \in Procs :
        cmd[p] = "ensure_vault" /\ pc[p] = "returned" => EnsureReturnValue(p)

\* The last two commands of the call r are the two git config commands.
ConfigRan(r) ==
    LET n == Len(r.cmds)
    IN  /\ n >= 3
        /\ r.cmds[n - 1].git = "config user.name"
        /\ r.cmds[n].git = "config user.email"

\* C15: in the clone path and in the pull path ensure_vault finishes by
\* setting user.name and user.email: there is no state in which ensure_vault
\* has run against a checkout, has returned, and has left the identity of the
\* checkout unset.
C15_IdentitySetByEveryCall ==
    \A p \in Procs :
        (EnsureReturned(p) /\ vault = "repo") =>
            /\ ConfigRan(result[p].value)
            /\ identity.name
            /\ identity.email

\* C15 as the code has it: a call that returns True has run git config
\* user.name and git config user.email last, after its clone or its pull, and
\* each of the two that exited zero has set its value; a call that returns
\* False (the clone or the pull exited non-zero) has run neither.
C15_IdentitySetWhenSyncSucceeds ==
    \A p \in Procs :
        EnsureReturned(p) =>
            LET r == result[p].value
                n == Len(r.cmds)
            IN  /\ r.ok =>
                       /\ ConfigRan(r)
                       /\ r.cmds[n - 1].rc = "ok" => identity.name
                       /\ r.cmds[n].rc = "ok" => identity.email
                /\ ~r.ok =>
                       \A i \in 1..n :
                           r.cmds[i].git \notin {"config user.name", "config user.email"}

\* A pull into an existing checkout succeeded and both config commands did.
C15_Witness ==
    \E p \in Procs :
        /\ EnsureReturned(p)
        /\ result[p].value.before = "repo"
        /\ result[p].value.ok
        /\ ConfigRan(result[p].value)
        /\ \A i \in 1..Len(result[p].value.cmds) : result[p].value.cmds[i].rc = "ok"
        /\ identity.name
        /\ identity.email

(* ------------------------ claims: the cycles, again ------------------- *)

\* Task p runs /process, process_daily has been awaited at least once, and
\* the daily file of the day it processes is empty (entries are only ever
\* appended, so it was empty at every attempt).
ProcessedEmptyDay(p) ==
    /\ cmd[p] = "process"
    /\ obs[p].calls >= 1
    /\ ReadDaily(tree, frame[p].day) = <<>>

\* C16: process_daily on a day without entries returns a Report with an error
\* and processed_entries = 0 and makes no LLM call; through the retry wrapper
\* of /process that Report comes back after exactly one attempt and no sleep,
\* and the cycle calls neither git commit nor git push.
C16_EmptyDayIsReportedAtOnce ==
    \A p \in Procs :
        ProcessedEmptyDay(p) =>
            /\ pc[p] = "done"
            /\ result[p].kind = "return"
            /\ "error" \in DOMAIN report[p]
            /\ report[p].error # <<>>
            /\ report[p].processed_entries = 0
            /\ obs[p].calls = 1
            /\ obs[p].llm = 0
            /\ obs[p].sleeps = <<>>
            /\ git[p] = NoGit
            /\ frame[p].attempt = 0

\* /process on an empty day has ended while yesterday's entry is still
\* uncommitted in the working tree.
C16_Witness ==
    \E p \in Procs :
        /\ ProcessedEmptyDay(p)
        /\ report[p] = [error |-> NoDailyMsg(today), processed_entries |-> 0]
        /\ HasChanges(tree, index, head)
        /\ groq_api_key

\* The days of the 7-day window of task p's weekly cycle whose daily file is
\* not empty.
NonEmptyDays(p) ==
    {d \in (frame[p].day - 6)..frame[p].day : tree[DailyPath(d)] # <<>>}

\* The day whose date the block b is marked with.
BlockDay(b) == CHOOSE d \in WeekDays : b.marker = "--- " \o IsoFormat(d) \o " ---"

\* C17: generate_weekly reads the 7 days today, today-1, ..., today-6 and no
\* other, and builds the input of the LLM from the non-empty days among them
\* and no other: one block per day, prefixed by the marker of its date, in the
\* order read, today first.  With at least one non-empty day and an LLM call
\* that returns, the Report has processed_entries = 1 whatever the number of
\* days; with none, an error Report with processed_entries = 0 comes back and
\* neither the LLM is called nor a summary written.
C17_WeeklyWindowIsSevenDays ==
    \A p \in Procs :
        (cmd[p] = "weekly" /\ pc[p] # "idle") =>
            LET B == frame[p].week_content
                ds == NonEmptyDays(p)
            IN  /\ Len(B) = Cardinality(ds)
                /\ \A i \in 1..Len(B) :
                       /\ \E d \in ds : B[i].marker = "--- " \o IsoFormat(d) \o " ---"
                       /\ B[i].content = tree[DailyPath(BlockDay(B[i]))]
                /\ \A i, j \in 1..Len(B) : i < j => BlockDay(B[i]) > BlockDay(B[j])
                /\ ds = {} =>
                       /\ pc[p] = "done"
                       /\ report[p] = [error |-> NoWeeklyMsg, processed_entries |-> 0]
                       /\ obs[p].llm = 0
                       /\ obs[p].save = "notrun"
                       /\ \A d \in WeekDays : tree[SummaryPath(d)] = <<>>
                /\ (ds # {} /\ pc[p] # "wk_llm" /\ result[p].kind = "return") =>
                       /\ "error" \notin DOMAIN report[p]
                       /\ report[p].processed_entries = 1

\* A weekly cycle over three non-empty days of the window, with non-empty
\* days before the window and after it, has its Report.
C17_Witness ==
    \E p \in Procs :
        /\ cmd[p] = "weekly"
        /\ today = 8
        /\ Cardinality(NonEmptyDays(p)) = 3
        /\ Len(frame[p].week_content) = 3
        /\ tree[DailyPath(1)] # <<>>
        /\ tree[DailyPath(9)] # <<>>
        /\ tree[DailyPath(2)] # <<>>
        /\ tree[DailyPath(8)] # <<>>
        /\ report[p] = [report |-> TextBold, processed_entries |-> 1]

\* The retry wrapper of task p's /process has given up after max_retries + 1
\* attempts that all failed with a rate-limit error.
RateLimitExhaustedIn(p) ==
    /\ result[p].kind = "raise"
    /\ obs[p].allRL
    /\ obs[p].calls = frame[p].max_retries + 1

\* C18: in /process the error of the Report is the try-again-later message
\* exactly when the retry wrapper ended with rate limit exhausted, that is
\* after N+1 rate-limit failures; every other failure is reported with the
\* text of the original failure.
C18_TryLaterIffExhausted ==
    \A p \in Procs :
        (cmd[p] = "process" /\ Reported(p)) =>
            /\ (IsError(report[p]) /\ report[p].error = TryLaterMsg)
                   <=> RateLimitExhaustedIn(p)
            /\ (result[p].kind = "raise" /\ ~RateLimitExhaustedIn(p)) =>
                   /\ IsError(report[p])
                   /\ report[p].error = obs[p].last.exc.msg

\* Four rate-limited attempts, three sleeps, and the try-again-later Report.
C18_Witness ==
    \E p \in Procs :
        /\ cmd[p] = "process"
        /\ Reported(p)
        /\ RateLimitExhaustedIn(p)
        /\ obs[p].calls = ProcessMaxRetries + 1
        /\ Len(obs[p].sleeps) = ProcessMaxRetries
        /\ report[p] = [error |-> TryLaterMsg, processed_entries |-> 0]

\* C19: a failure while the Summary file is written, after the LLM call has
\* succeeded, is swallowed: generate_weekly still returns the Report whose
\* report is the LLM output, with processed_entries = 1, raises nothing, and
\* the cycle goes on to commit_and_push.
C19_SaveFailureIsSwallowed ==
    \A p \in Procs :
        (cmd[p] = "weekly" /\ obs[p].save = "fail") =>
            /\ result[p].kind = "return"
            /\ obs[p].last.kind = "return"
            /\ report[p] = [report |-> obs[p].last.value.report, processed_entries |-> 1]
            /\ report[p].report \in LlmTexts \cup {CredMsg}
            /\ obs[p].wrote = {}
            /\ pc[p] \in {"cp_status", "cp_add", "cp_commit", "cp_push", "done"}
            /\ pc[p] = "done" => git[p].status # "notrun"

\* The save failed, the Report carries the text of the LLM, and the commit of
\* the cycle has put the week's entries in the history without a summary.
C19_Witness ==
    \E p \in Procs :
        /\ cmd[p] = "weekly"
        /\ obs[p].save = "fail"
        /\ obs[p].llm = 1
        /\ report[p] = [report |-> TextMixed, processed_entries |-> 1]
        /\ pc[p] = "done"
        /\ git[p].commit = "ok"
        /\ \A f \in SummaryPaths : head[f] = <<>>

\* The positions of the step e in the log L.
At(L, e) == {i \in 1..Len(L) : L[i] = e}

\* Every e in L has an a before it.
Precedes(L, a, e) == \A i \in At(L, e) : \E j \in At(L, a) : j < i

\* C20: within one cycle the steps are strictly ordered: the entries are read
\* before the LLM is called; the weekly summary is written only after the LLM
\* call has returned and before commit_and_push starts; commit_and_push is
\* invoked exactly once when the Report has no error and not at all otherwise;
\* git push is attempted only after a git commit that succeeded in the same
\* commit_and_push call.
C20_StepsOfACycleAreOrdered ==
    \A p \in Procs :
        InCycle(p) =>
            LET L == obs[p].log
                saves == At(L, "save ok") \cup At(L, "save fail")
                calls == At(L, "commit_and_push")
                pushes == At(L, "push ok") \cup At(L, "push fail")
            IN  /\ Precedes(L, "read", "llm")
                /\ \A i \in saves :
                       /\ \E j \in At(L, "llm return") : j < i
                       /\ \A j \in calls : i < j
                /\ Cardinality(saves) <= 1
                /\ Cardinality(calls) <= 1
                /\ Reported(p) =>
                       Cardinality(calls) = (IF IsError(report[p]) THEN 0 ELSE 1)
                /\ ~Reported(p) => calls = {}
                /\ \A i \in pushes :
                       \E j \in At(L, "commit ok") :
                           /\ j < i
                           /\ \E k \in calls : k < j
                /\ \A i \in 1..Len(L) :
                       L[i] \in {"status ok", "status fail", "add ok", "add fail",
                                 "commit ok", "commit fail"} \cup {L[k] : k \in pushes}
                           => \E k \in calls : k < i

\* A weekly cycle has gone through every step, and each happened once.
C20_Witness ==
    \E p \in Procs :
        /\ cmd[p] = "weekly"
        /\ pc[p] = "done"
        /\ obs[p].log = <<"read", "llm", "llm return", "save ok", "commit_and_push",
                          "status ok", "add ok", "commit ok", "push ok">>

(* ------------------------ claims: mirror of the remote ---------------- *)

\* C21: starting from a checkout in sync with its remote, with calls one
\* after the other, whenever commit_and_push returns True the checkout mirrors
\* the remote: no uncommitted modification and no local commit the remote
\* lacks.  In particular, after a call whose commit succeeded and whose push
\* failed, a following call with nothing new does not return True while that
\* commit is unpushed.
C21_TrueMeansMirror ==
    \A p \in Procs :
        (cmd[p] = "commit_and_push" /\ pc[p] = "done" /\ git[p].ret = "True") =>
            /\ ~HasChanges(tree, index, head)
            /\ ~ahead

\* The second half of C21 alone: a call that follows one whose push failed,
\* with nothing modified in between, does not return True while the commit is
\* unpushed.
C21_UnpushedCommitPart ==
    \A p \in Procs :
        (cmd[p] = "commit_and_push" /\ pc[p] = "done" /\ prev.ret = "False"
         /\ ~HasChanges(tree, index, head) /\ ahead) =>
            git[p].ret # "True"

(* ------------------------ claims: the summary files ------------------- *)

\* The ISO week of the d-th of January 2025, from the calendar: the 5th is the
\* Sunday of week 1, the 12th the Sunday of week 2.
WeekOfJanuary(d) == IF d <= 5 THEN 1 ELSE IF d <= 12 THEN 2 ELSE 3

\* The file of the weekly cycle that started on day d, as the claim names it.
SummaryFileOf(d) == "summaries/2025-W0" \o ToString(WeekOfJanuary(d)) \o "-summary.md"

\* What a summary file holds after the synthesis text was saved on day d.
SavedSynthesis(d, text) == Frontmatter(d) \o HtmlToMarkdown(text)

\* One file per ISO week, at the path the claim gives.
OneFilePerWeek ==
    /\ \A d \in Days : SummaryPath(d) = SummaryFileOf(d)
    /\ \A d, e \in Days : WeekOfJanuary(d) = WeekOfJanuary(e) <=> SummaryPath(d) = SummaryPath(e)
    /\ \A f \in SummaryPaths : \E d \in Days : f = SummaryFileOf(d)

\* A step changes a summary file only by writing, for the weekly cycle that
\* is saving, the file of the week the cycle started in; it never empties one.
SummaryFrame ==
    \A f \in SummaryPaths :
        tree'[f] # tree[f] =>
            /\ tree'[f] # <<>>
            /\ \E p \in Procs :
                  /\ cmd[p] = "weekly"
                  /\ pc[p] = "wk_llm"
                  /\ f = SummaryFileOf(frame[p].day)
                  /\ obs'[p].save = "ok"
                  /\ tree'[f] = SavedSynthesis(frame[p].day, report'[p].report)

\* The weekly cycle of task p has returned a Report without an error.
WeeklySucceeded(p) ==
    cmd[p] = "weekly" /\ Reported(p) /\ ~IsError(report[p])

Serialized == \A p \in Procs : ~frame[p].overlapped

\* Task p is in the commit_and_push of a weekly cycle.
Committing(p) == cmd[p] = "weekly" /\ pc[p] \in {"cp_status", "cp_add", "cp_commit", "cp_push", "done"}

\* The files whose staged content differs from the last commit: what a
\* successful `git commit` will record.
Staged == {f \in DOMAIN index : index[f] # head[f]}

EmptyCommitReturnsTrue ==
    \A p \in Procs :
        cmd[p] = "weekly" /\ pc[p] = "cp_commit" /\ Staged = {} /\ pc'[p] # pc[p] =>
            /\ git'[p].commit = "fail"
            /\ git'[p].ret = "True"
            /\ pc'[p] = "done"
            /\ head' = head

StartupLogOf(outcome) ==
    IF outcome = "True" THEN <<LogSyncing, LogEnsureOk>>
    ELSE IF outcome = "False" THEN <<LogSyncing, LogEnsureFailed>>
    ELSE IF outcome = "raise" THEN <<LogSyncing, LogSyncFailed>>
    ELSE <<LogNoUrl>>

\* The sync is over, or there was none to make.
SyncOver ==
    /\ boot.outcome \in {"True", "False", "raise", "no url"}
    /\ boot.outcome = "no url" <=> boot.settings.vault_git_url = <<>>
    /\ boot.syncs = IF boot.outcome = "no url" THEN 0 ELSE 1
    /\ boot.log = StartupLogOf(boot.outcome)

\* The bot starts from run_bot, with the sync over, and nothing of startup
\* happens after that; no handler and no voice message acts before it serves.
ServesAfterSync ==
    /\ boot'.pc = "serving" /\ boot.pc # "serving" => boot.pc = "run_bot" /\ SyncOver
    /\ boot.pc = "serving" => boot' = boot
    /\ boot.pc # "serving" => UNCHANGED taskVars
    /\ boot.pc # "sync" => UNCHANGED <<vault, identity>>

\* C24: at startup the vault sync is attempted at most once and is over
\* before the bot serves; whether ensure_vault returns True, returns False or
\* raises, or no vault URL is configured, main logs, goes on and the bot is
\* eventually started; a sync failure never aborts startup.
C24_StartupSyncsOnceAndServes ==
    /\ [](boot.syncs <= 1)
    /\ [](boot.pc # "aborted")
    /\ [](boot.pc \in {"run_bot", "serving"} => SyncOver)
    /\ [][ServesAfterSync]_vars
    /\ <>(boot.pc = "serving")

\* The bot serves after a sync that raised: the vault directory is missing.
C24_Witness ==
    /\ boot.pc = "serving"
    /\ boot.outcome = "raise"
    /\ boot.syncs = 1
    /\ boot.log = <<LogSyncing, LogSyncFailed>>
    /\ vault = "absent"
    /\ \E p \in Procs : cmd[p] = "commit_and_push" /\ pc[p] = "returned"

====
